---------------------------- MODULE Spec2Model ----------------------------
(***************************************************************************)
(* A model of bake/kernels.py: the kernel functions gaussian, laplace and  *)
(* matern3on2, the pairwise-difference primitive dist and the normalising  *)
(* constant gaussian_norm.                                                 *)
(*                                                                         *)
(* Numbers.  Array entries are exact extended rationals [n, d]: d > 0 is   *)
(* the rational n/d in lowest terms, and d = 0 is one of the IEEE special  *)
(* values the code can produce: +inf (n = 1), -inf (n = -1), NaN (n = 0).  *)
(* Rounding is not modelled.  Irrational results are kept as terms:        *)
(* [sqrt |-> v], [neg |-> v], [exp |-> v], [add |-> <<u, v>>] and          *)
(* [mul |-> <<u, v>>].                                                     *)
(*                                                                         *)
(* Arrays.  A numpy array is [t |-> "ndarray", shape |-> <<..>>,           *)
(* data |-> nested sequences]; Python's None and a raised ValueError are   *)
(* values with t = "None" and t = "error".                                 *)
(***************************************************************************)
EXTENDS Integers, Sequences, FiniteSets, TLC

VARIABLES x_p, x_q, theta, m, result, prev, pc, ker, sp, sq, rr, in0

vars == <<x_p, x_q, theta, m, result, prev, pc, ker, sp, sq, rr, in0>>

(***************************************************************************)
(* Bounds of the model.                                                    *)
(***************************************************************************)
MaxN == 2
MaxM == 2
MaxCoord == 1
MaxTheta == 2
MaxLen == 3
MaxDim == 3
NCallers == 2

(***************************************************************************)
(* Extended rationals.                                                     *)
(***************************************************************************)
Abs(i) == IF i < 0 THEN -i ELSE i

Sign(i) == IF i < 0 THEN -1 ELSE IF i = 0 THEN 0 ELSE 1

RECURSIVE GCD(_, _)
GCD(a, b) == IF b = 0 THEN a ELSE GCD(b, a % b)

\* n/d for d > 0, in lowest terms.
Norm(n, d) ==
    LET g == GCD(Abs(n), d)
    IN  [n |-> Sign(n) * (Abs(n) \div g), d |-> d \div g]

NaN == [n |-> 0, d |-> 0]
PInf == [n |-> 1, d |-> 0]
NInf == [n |-> -1, d |-> 0]
Zero == [n |-> 0, d |-> 1]
One == [n |-> 1, d |-> 1]

FromInt(i) == [n |-> i, d |-> 1]

IsNum(v) == "n" \in DOMAIN v

IsFin(a) == a.d # 0

Neg(a) == [n |-> -a.n, d |-> a.d]

\* a + b: inf + (-inf) and anything with NaN give NaN.
Add(a, b) ==
    IF IsFin(a) /\ IsFin(b) THEN Norm(a.n * b.d + b.n * a.d, a.d * b.d)
    ELSE IF a = NaN \/ b = NaN THEN NaN
    ELSE IF IsFin(a) THEN b
    ELSE IF IsFin(b) THEN a
    ELSE IF a = b THEN a
    ELSE NaN

Sub(a, b) == Add(a, Neg(b))

\* a * b: inf * 0 and anything with NaN give NaN.
Mul(a, b) ==
    IF IsFin(a) /\ IsFin(b) THEN Norm(a.n * b.n, a.d * b.d)
    ELSE [n |-> Sign(a.n) * Sign(b.n), d |-> 0]

\* x / t for finite x, t: x / 0 is +inf, -inf or (0 / 0) NaN; numpy warns
\* and does not raise.
Div(a, b) ==
    IF b.n = 0 THEN [n |-> Sign(a.n), d |-> 0]
    ELSE Norm(a.n * b.d * Sign(b.n), a.d * Abs(b.n))

\* a < b for finite a, b (used to order entries, not by the code).
Lt(a, b) == a.n * b.d < b.n * a.d

IsSquare(i) == \E k \in 0..i : k * k = i

Root(i) == CHOOSE k \in 0..i : k * k = i

(***************************************************************************)
(* The elementwise functions of the array library, on one number.          *)
(***************************************************************************)
\* sqrt(v) for v >= 0, +inf or NaN.
sqrt(v) ==
    IF ~IsFin(v) THEN v
    ELSE IF IsSquare(v.n) /\ IsSquare(v.d) THEN [n |-> Root(v.n), d |-> Root(v.d)]
    ELSE [sqrt |-> v]

neg(v) == IF IsNum(v) THEN Neg(v) ELSE [neg |-> v]

\* exp(v): exp(0) = 1, exp(-inf) = 0, exp(+inf) = +inf, exp(NaN) = NaN.
exp(v) ==
    IF ~IsNum(v) THEN [exp |-> v]
    ELSE IF v = NaN \/ v = PInf THEN v
    ELSE IF v = NInf THEN Zero
    ELSE IF v.n = 0 THEN One
    ELSE [exp |-> v]

add(u, v) ==
    IF IsNum(u) /\ IsNum(v) THEN Add(u, v)
    ELSE IF u = NaN \/ v = NaN THEN NaN
    ELSE [add |-> <<u, v>>]

mul(u, v) ==
    IF IsNum(u) /\ IsNum(v) THEN Mul(u, v)
    ELSE IF u = NaN \/ v = NaN THEN NaN
    ELSE [mul |-> <<u, v>>]

(***************************************************************************)
(* Arrays.                                                                 *)
(***************************************************************************)
None == [t |-> "None", shape |-> <<>>, data |-> <<>>]

ValueError == [t |-> "error", shape |-> <<>>, data |-> <<>>]

Array(shape, data) == [t |-> "ndarray", shape |-> shape, data |-> data]

IsError(a) == a.t = "error"

IsArray(a) == a.t = "ndarray"

\* Equality of two values that may be arrays of different rank.
Same(a, b) == a.t = b.t /\ a.shape = b.shape /\ a.data = b.data

\* A plausible slip: only the second operand's axis of length 1 is stretched.
BroadcastStrict(a, b) == IF a = b THEN a ELSE IF b = 1 THEN a ELSE -1

\* numpy's broadcasting rule for one axis: equal lengths, or one of them 1;
\* -1 when the lengths are incompatible.
BroadcastDim(a, b) ==
    IF a = b THEN a ELSE IF a = 1 THEN b ELSE IF b = 1 THEN a ELSE -1

\* The index read along an axis of length len when the result index is k.
Pick(len, k) == IF len = 1 THEN 1 ELSE k

\* np.ones(n)
ones(n) == Array(<<n>>, [i \in 1..n |-> One])

\* A plausible slip: x * theta in place of x / theta.
Divide_multiplies(x, th) ==
    LET n == x.shape[1]
        c == BroadcastDim(x.shape[2], th.shape[1])
    IN  IF c = -1 THEN ValueError
        ELSE Array(<<n, c>>,
                   [i \in 1..n |-> [k \in 1..c |->
                       Mul(x.data[i][Pick(x.shape[2], k)],
                           th.data[Pick(th.shape[1], k)])]])

\* x / theta for a 2-D x (n x m) and a 1-D theta (L): theta is broadcast
\* along the last axis.
Divide(x, th) ==
    LET n == x.shape[1]
        c == BroadcastDim(x.shape[2], th.shape[1])
    IN  IF c = -1 THEN ValueError
        ELSE Array(<<n, c>>,
                   [i \in 1..n |-> [k \in 1..c |->
                       Div(x.data[i][Pick(x.shape[2], k)],
                           th.data[Pick(th.shape[1], k)])]])

RECURSIVE SumSq(_, _, _)
\* sum over k = 1..c of (u[k] - v[k])^2
SumSq(u, v, c) ==
    IF c = 0 THEN Zero
    ELSE LET dk == Sub(u[c], v[c])
         IN  Add(SumSq(u, v, c - 1), Mul(dk, dk))

\* scipy.spatial.distance.cdist(XA, XB, metric) for 2-D XA, XB: a ValueError
\* when the column counts differ; the entries are not checked for being
\* finite, so inf and NaN go through the sums.
cdist(XA, XB, metric) ==
    IF XA.shape[2] # XB.shape[2] THEN ValueError
    ELSE Array(<<XA.shape[1], XB.shape[1]>>,
               [i \in 1..XA.shape[1] |-> [j \in 1..XB.shape[1] |->
                   LET s == SumSq(XA.data[i], XB.data[j], XA.shape[2])
                   IN  IF metric = "sqeuclidean" THEN s ELSE sqrt(s)]])

\* A plausible slip: the factor 0.5 left out.
GaussianOf_no_half(s) == exp(neg(s))

\* A plausible slip: the factor (1 + r) written as r.
Matern3on2Of_no_one(r) == mul(r, exp(neg(r)))

\* The elementwise transforms of the three kernels.
GaussianOf(s) == exp(mul([n |-> -1, d |-> 2], s))

LaplaceOf(r) == exp(neg(r))

Matern3on2Of(r) == mul(add(One, r), exp(neg(r)))

\* The transform of kernel k on one entry.
EntryOf(k, v) ==
    CASE k = "gaussian" -> GaussianOf(v)
      [] k = "laplace" -> LaplaceOf(v)
      [] k = "matern3on2" -> Matern3on2Of(v)

\* The transform of kernel k applied to every entry of a 2-D array.
TransformOf(k, a) ==
    Array(a.shape,
          [i \in 1..a.shape[1] |-> [j \in 1..a.shape[2] |-> EntryOf(k, a.data[i][j])]])

(***************************************************************************)
(* bake/kernels.py                                                         *)
(***************************************************************************)
\* A plausible slip: the operands are scaled before x_q is tested.
gaussian_reads_theta(xp, xq, th) ==
    LET a == Divide(xp, th)
    IN  IF IsError(a) THEN ValueError
        ELSE IF xq.t = "None" THEN ones(xp.shape[1])
        ELSE LET b == Divide(xq, th)
             IN  IF IsError(b) THEN ValueError
                 ELSE LET s == cdist(a, b, "sqeuclidean")
                      IN  IF IsError(s) THEN ValueError ELSE TransformOf("gaussian", s)

gaussian(xp, xq, th) ==
    IF xq.t = "None" THEN ones(xp.shape[1])
    ELSE LET a == Divide(xp, th)
             b == Divide(xq, th)
         IN  IF IsError(a) \/ IsError(b) THEN ValueError
             ELSE LET s == cdist(a, b, "sqeuclidean")
                  IN  IF IsError(s) THEN ValueError ELSE TransformOf("gaussian", s)

\* A plausible slip: x_q is not scaled.
laplace_unscaled_q(xp, xq, th) ==
    IF xq.t = "None" THEN ones(xp.shape[1])
    ELSE LET a == Divide(xp, th)
         IN  IF IsError(a) THEN ValueError
             ELSE LET r == cdist(a, xq, "euclidean")
                  IN  IF IsError(r) THEN ValueError ELSE TransformOf("laplace", r)

laplace(xp, xq, th) ==
    IF xq.t = "None" THEN ones(xp.shape[1])
    ELSE LET a == Divide(xp, th)
             b == Divide(xq, th)
         IN  IF IsError(a) \/ IsError(b) THEN ValueError
             ELSE LET r == cdist(a, b, "euclidean")
                  IN  IF IsError(r) THEN ValueError ELSE TransformOf("laplace", r)

matern3on2(xp, xq, th) ==
    IF xq.t = "None" THEN ones(xp.shape[1])
    ELSE LET a == Divide(xp, th)
             b == Divide(xq, th)
         IN  IF IsError(a) \/ IsError(b) THEN ValueError
             ELSE LET r == cdist(a, b, "euclidean")
                  IN  IF IsError(r) THEN ValueError ELSE TransformOf("matern3on2", r)

Kernels == {"gaussian", "laplace", "matern3on2"}

Kernel(k, xp, xq, th) ==
    CASE k = "gaussian" -> gaussian(xp, xq, th)
      [] k = "laplace" -> laplace(xp, xq, th)
      [] k = "matern3on2" -> matern3on2(xp, xq, th)

\* The kernel's metric for cdist, for the statement-by-statement run of a
\* call.
MetricOf(k) == IF k = "gaussian" THEN "sqeuclidean" ELSE "euclidean"

\* x[:, np.newaxis] for a 2-D x: shape (n, 1, m).
NewAxis1(x) ==
    Array(<<x.shape[1], 1, x.shape[2]>>, [i \in 1..x.shape[1] |-> <<x.data[i]>>])

\* x[np.newaxis, :] for a 2-D x: shape (1, n, m).
NewAxis0(x) == Array(<<1, x.shape[1], x.shape[2]>>, <<x.data>>)

\* a - b for 3-D arrays, each axis broadcast.
Subtract3(a, b) ==
    LET d1 == BroadcastDim(a.shape[1], b.shape[1])
        d2 == BroadcastDim(a.shape[2], b.shape[2])
        d3 == BroadcastDim(a.shape[3], b.shape[3])
    IN  IF d1 = -1 \/ d2 = -1 \/ d3 = -1 THEN ValueError
        ELSE Array(<<d1, d2, d3>>,
                   [i \in 1..d1 |-> [j \in 1..d2 |-> [k \in 1..d3 |->
                       Sub(a.data[Pick(a.shape[1], i)][Pick(a.shape[2], j)][Pick(a.shape[3], k)],
                           b.data[Pick(b.shape[1], i)][Pick(b.shape[2], j)][Pick(b.shape[3], k)])]]])

\* A plausible slip: the new axes put on the wrong operands.
dist_swapped_axes(x_1, x_2) == Subtract3(NewAxis0(x_1), NewAxis1(x_2))

dist(x_1, x_2) == Subtract3(NewAxis1(x_1), NewAxis0(x_2))

\* Values of gaussian_norm: q * sqrt(2 pi)^c for a rational q.
Mono(c, q) == [c |-> c, q |-> q]

MonoMul(a, b) == Mono(a.c + b.c, Mul(a.q, b.q))

\* np.sqrt(2 * np.pi)
Sqrt2Pi == Mono(1, One)

\* scalar * 1-D array
Scale1(s, a) == Array(a.shape, [i \in 1..a.shape[1] |-> MonoMul(s, Mono(0, a.data[i]))])

\* a * th for 1-D arrays, broadcast.
Multiply1(a, th) ==
    LET c == BroadcastDim(a.shape[1], th.shape[1])
    IN  IF c = -1 THEN ValueError
        ELSE Array(<<c>>,
                   [k \in 1..c |-> MonoMul(a.data[Pick(a.shape[1], k)],
                                           Mono(0, th.data[Pick(th.shape[1], k)]))])

RECURSIVE ProdTo(_, _)
ProdTo(a, k) == IF k = 0 THEN Mono(0, One) ELSE MonoMul(ProdTo(a, k - 1), a.data[k])

Scalar(v) == [t |-> "scalar", shape |-> <<>>, data |-> v]

\* np.prod(a) for a 1-D array
prod(a) == Scalar(ProdTo(a, a.shape[1]))

\* A plausible slip: the lengths are validated, theta must have length 1 or m.
gaussian_norm_checked(th, dim) ==
    IF th.shape[1] # 1 /\ th.shape[1] # dim THEN ValueError
    ELSE prod(Multiply1(Scale1(Sqrt2Pi, ones(dim)), th))

\* A plausible slip: np.ones(m) left out, so that m is ignored.
gaussian_norm_ignores_m(th, dim) == prod(Scale1(Sqrt2Pi, th))

gaussian_norm(th, dim) ==
    LET a == Multiply1(Scale1(Sqrt2Pi, ones(dim)), th)
    IN  IF IsError(a) THEN ValueError ELSE prod(a)

(***************************************************************************)
(* Inputs.                                                                 *)
(***************************************************************************)
Coord == 0..MaxCoord

\* All n x c point sets with integer coordinates in Coord.
PointSets(ns, cs) ==
    UNION {UNION {{Array(<<n, c>>, [i \in 1..n |-> [k \in 1..c |-> FromInt(f[i][k])]]) :
                      f \in [1..n -> [1..c -> Coord]]} : c \in cs} : n \in ns}

\* All 1-D arrays of the given lengths with integer entries in vals.
Vectors(lens, vals) ==
    UNION {{Array(<<l>>, [k \in 1..l |-> FromInt(f[k])]) : f \in [1..l -> vals]} : l \in lens}

NoResult == [op |-> "none", out |-> None]

NoPrev == [op |-> "none", out |-> None, k |-> 0]

Callers == 1..NCallers

Idle == [c \in Callers |-> "idle"]

NoLocal == [c \in Callers |-> None]

\* A plausible slip: the division done in place (x /= th).
AfterDivide_in_place(x, th) ==
    LET a == Divide(x, th) IN IF IsError(a) THEN x ELSE a

\* The array object x after the expression x / th has been evaluated: the
\* quotient is a new array, x is not written.
AfterDivide(x, th) == x

\* The argument array x after a whole kernel call: on the x_q-is-None branch
\* nothing is evaluated, otherwise x has been an operand of one division.
AfterCall(x, xq, th) == IF xq.t = "None" THEN x ELSE AfterDivide(x, th)

(***************************************************************************)
(* Spec: one caller holding x_p, x_q and theta calls the kernels, one call *)
(* at a time.                                                              *)
(***************************************************************************)
Init ==
    /\ x_p \in PointSets(1..MaxN, 1..MaxM)
    /\ x_q \in PointSets(1..MaxN, 1..MaxM) \cup {None}
    /\ theta \in Vectors(0..MaxLen, (0 - 1)..MaxTheta)
    /\ m = 0
    /\ result = NoResult
    /\ prev = NoPrev
    /\ pc = Idle /\ ker = Idle /\ sp = NoLocal /\ sq = NoLocal /\ rr = NoLocal
    /\ in0 = <<>>

Call(k) ==
    /\ result' = [op |-> k, out |-> Kernel(k, x_p, x_q, theta)]
    /\ x_p' = AfterCall(x_p, x_q, theta)
    /\ x_q' = AfterCall(x_q, x_q, theta)
    /\ UNCHANGED <<theta, m, prev, pc, ker, sp, sq, rr, in0>>

Next == \E k \in Kernels : Call(k)

Spec == Init /\ [][Next]_vars

(***************************************************************************)
(* Vocabulary of the claims about a kernel call.                           *)
(***************************************************************************)
Np == x_p.shape[1]
Mp == x_p.shape[2]
Nq == x_q.shape[1]
Mq == x_q.shape[2]
L == theta.shape[1]

Present == x_q.t = "ndarray"

Called == result.op \in Kernels

\* theta_k, a length-1 theta supplying the same value for every k.
ThetaAt(k) == theta.data[IF L = 1 THEN 1 ELSE k]

NoZeroTheta == \A k \in 1..L : theta.data[k].n # 0

PositiveTheta == \A k \in 1..L : theta.data[k].n > 0

\* x_q is the same point set as x_p.
SelfGram == Present /\ Same(x_q, x_p)

IsMatrix(a, n, c) == IsArray(a) /\ a.shape = <<n, c>>

IsOnesVector(a, n) == IsArray(a) /\ a.shape = <<n>> /\ \A i \in 1..n : a.data[i] = One

(***************************************************************************)
(* C1.  When x_q is None the result is a vector of exactly n_p ones,       *)
(* whatever the coordinates of x_p and whatever theta is (any value, any   *)
(* length, shape-incompatible or non-positive): theta is not read and no   *)
(* error is produced.                                                      *)
(***************************************************************************)
C1_OnesWhenAbsent ==
    (Called /\ ~Present) => IsOnesVector(result.out, Np)

\* A call without x_q whose theta has a zero in it and a length that fits
\* neither 1 nor m has returned the two ones of a two-point set.
C1_Witness ==
    /\ Called /\ ~Present
    /\ Np = 2 /\ Mp = 2 /\ L = 3
    /\ ~NoZeroTheta
    /\ IsOnesVector(result.out, 2)

(***************************************************************************)
(* C2.  With x_q present, both point sets of m columns and theta of length *)
(* 1 or m, the result is n_p x n_q and entry (i, j) is the kernel's        *)
(* transform of s_ij = sum_k ((x_p[i,k] - x_q[j,k]) / theta_k)^2:          *)
(* exp(-0.5 s) for gaussian, exp(-sqrt(s)) for laplace and                 *)
(* (1 + sqrt(s)) exp(-sqrt(s)) for matern3on2; and a length-1 theta [c]    *)
(* gives the same matrix as the length-m theta [c, ..., c].                *)
(***************************************************************************)
RECURSIVE ClaimS(_, _, _)
\* sum over k = 1..c of ((x_p[i,k] - x_q[j,k]) / theta_k)^2
ClaimS(i, j, c) ==
    IF c = 0 THEN Zero
    ELSE LET q == Div(Sub(x_p.data[i][c], x_q.data[j][c]), ThetaAt(c))
         IN  Add(ClaimS(i, j, c - 1), Mul(q, q))

ClaimEntry(k, s) ==
    CASE k = "gaussian" -> exp(mul([n |-> -1, d |-> 2], s))
      [] k = "laplace" -> exp(neg(sqrt(s)))
      [] k = "matern3on2" -> mul(add(One, sqrt(s)), exp(neg(sqrt(s))))

\* The length-m theta [c, ..., c] of a length-1 theta [c].
FullTheta == Array(<<Mp>>, [k \in 1..Mp |-> theta.data[1]])

C2_Case == Called /\ Present /\ Mp = Mq /\ (L = 1 \/ L = Mp)

C2_Formula ==
    /\ IsMatrix(result.out, Np, Nq)
    /\ \A i \in 1..Np : \A j \in 1..Nq :
           result.out.data[i][j] = ClaimEntry(result.op, ClaimS(i, j, Mp))
    /\ L = 1 => Same(result.out, Kernel(result.op, x_p, x_q, FullTheta))

\* C2 as stated, for every theta of length 1 or m.
C2_Original == C2_Case => C2_Formula

\* C2, amended: the formula holds when no component of theta is zero, so
\* that every scaled coordinate is finite.
C2_EntryFormula == (C2_Case /\ NoZeroTheta) => C2_Formula

\* An anisotropic call on two-column point sets has returned a matrix with
\* an entry that is neither 1 nor 0 nor NaN.
C2_Witness ==
    /\ C2_Case /\ NoZeroTheta
    /\ Mp = 2 /\ L = 2 /\ theta.data[1] # theta.data[2]
    /\ IsMatrix(result.out, Np, Nq)
    /\ \E i \in 1..Np : \E j \in 1..Nq : ~IsNum(result.out.data[i][j])

(***************************************************************************)
(* C3.  Self-similarity: the diagonal of kernel(X, X, theta) is a vector   *)
(* of ones, the same vector kernel(X, None, theta) returns.                *)
(***************************************************************************)
Diagonal(a) == Array(<<a.shape[1]>>, [i \in 1..a.shape[1] |-> a.data[i][i]])

C3_DiagonalIsOnes ==
    /\ IsMatrix(result.out, Np, Np)
    /\ IsOnesVector(Diagonal(result.out), Np)
    /\ Same(Diagonal(result.out), Kernel(result.op, x_p, None, theta))

\* C3 as stated (for all theta), here only for the theta the data model
\* allows: length 1 or m.
C3_Original == (Called /\ SelfGram /\ (L = 1 \/ L = Mp)) => C3_DiagonalIsOnes

\* C3, amended: whenever kernel(X, X, theta) returns and no component of theta
\* is zero (every scaled coordinate is finite), its diagonal is the vector
\* of ones that kernel(X, None, theta) returns.
C3_SelfSimilarity ==
    (Called /\ SelfGram /\ IsArray(result.out) /\ NoZeroTheta) => C3_DiagonalIsOnes

\* A Gram matrix of two distinct points whose off-diagonal entries are not 1.
C3_Witness ==
    /\ Called /\ SelfGram /\ NoZeroTheta
    /\ IsMatrix(result.out, 2, 2)
    /\ result.out.data[1][2] # One
    /\ result.out.data[1][1] = One /\ result.out.data[2][2] = One

(***************************************************************************)
(* C4.  Symmetry: for every point set X and every elementwise positive     *)
(* theta of length 1 or m, kernel(X, X, theta) is a matrix whose entry     *)
(* (i, j) equals its entry (j, i).                                         *)
(***************************************************************************)
C4_Symmetric ==
    (Called /\ SelfGram /\ PositiveTheta /\ (L = 1 \/ L = Mp)) =>
        /\ IsMatrix(result.out, Np, Np)
        /\ \A i \in 1..Np : \A j \in 1..Np :
               result.out.data[i][j] = result.out.data[j][i]

\* A Gram matrix of two distinct two-column points under an anisotropic
\* positive theta, with off-diagonal entries other than 1.
C4_Witness ==
    /\ Called /\ SelfGram /\ PositiveTheta
    /\ Np = 2 /\ Mp = 2 /\ L = 2 /\ theta.data[1] # theta.data[2]
    /\ IsMatrix(result.out, 2, 2)
    /\ result.out.data[1][2] # One
    /\ result.out.data[1][2] = result.out.data[2][1]

(***************************************************************************)
(* C7.  With x_q present, every shape incompatibility (x_p and x_q with    *)
(* different column counts, or a theta whose length is neither 1 nor m)    *)
(* is a failure propagated to the caller; no such call returns a matrix.   *)
(***************************************************************************)
Max(a, b) == IF a < b THEN b ELSE a

\* C7 as stated, for a non-empty theta.
C7_Original ==
    (Called /\ Present /\ L >= 1 /\ (Mp # Mq \/ (L # 1 /\ L # Mp))) =>
        IsError(result.out)

\* C7, amended: a call with a non-empty theta fails exactly when theta cannot be
\* broadcast against x_p or against x_q (its length differs from the column
\* count and neither is 1) or the two scaled point sets end up with
\* different column counts.  So among point sets of two or more columns
\* every incompatibility fails, but a one-column point set is silently
\* broadcast against a longer theta and a matrix is returned.
C7_FailureCases ==
    (Called /\ Present /\ L >= 1) =>
        /\ IsError(result.out) <=>
               \/ Mp # L /\ Mp # 1 /\ L # 1
               \/ Mq # L /\ Mq # 1 /\ L # 1
               \/ Max(Mp, L) # Max(Mq, L)
        /\ ~IsError(result.out) => IsMatrix(result.out, Np, Nq)
        /\ (Mp >= 2 /\ Mq >= 2 /\ (Mp # Mq \/ (L # 1 /\ L # Mp))) => IsError(result.out)

\* A call on two-column point sets with a theta of length 3 has failed.
C7_Witness ==
    /\ Called /\ Present
    /\ Mp = 2 /\ Mq = 2 /\ L = 3
    /\ IsError(result.out)

(***************************************************************************)
(* SpecScale: a caller that evaluates the Gram matrix of one point set,    *)
(* increases one component of a positive theta and evaluates it again.     *)
(***************************************************************************)
InitScale ==
    /\ x_p \in PointSets(1..MaxN, 1..MaxM)
    /\ x_q = x_p
    /\ theta \in Vectors(1..MaxM, 1..MaxTheta)
    /\ m = 0
    /\ result = NoResult
    /\ prev = NoPrev
    /\ pc = Idle /\ ker = Idle /\ sp = NoLocal /\ sq = NoLocal /\ rr = NoLocal
    /\ in0 = <<>>

\* The caller keeps the matrix it has and raises component i of theta by d.
Rescale(i, d) ==
    /\ Called /\ IsArray(result.out)
    /\ theta.data[i].n + d <= MaxTheta + 1
    /\ theta' = [theta EXCEPT !.data[i] = FromInt(@.n + d)]
    /\ prev' = [op |-> result.op, out |-> result.out, k |-> i]
    /\ result' = NoResult
    /\ UNCHANGED <<x_p, x_q, m, pc, ker, sp, sq, rr, in0>>

NextScale ==
    \/ \E k \in Kernels : Call(k)
    \/ \E i \in 1..L : \E d \in 1..MaxTheta : Rescale(i, d)

SpecScale == InitScale /\ [][NextScale]_vars

(***************************************************************************)
(* The order of two entries of one kernel.  Each transform, exp(-0.5 s),   *)
(* exp(-sqrt(s)) and (1 + sqrt(s)) exp(-sqrt(s)), is strictly decreasing   *)
(* in s on s >= 0, so an entry is the smaller one exactly when its s is    *)
(* the larger one.  SquaredDistanceOf reads s back from a finite entry.    *)
(***************************************************************************)
SquareOfRadius(w) ==
    IF IsNum(w) THEN Mul(w, w) ELSE w.neg.sqrt

SquaredDistanceOf(k, v) ==
    IF v = One THEN Zero
    ELSE CASE k = "gaussian" -> Mul(FromInt(-2), v.exp)
           [] k = "laplace" -> SquareOfRadius(v.exp)
           [] k = "matern3on2" -> SquareOfRadius(v.mul[2].exp)

EntryLess(k, u, v) == Lt(SquaredDistanceOf(k, v), SquaredDistanceOf(k, u))

\* The same kernel has been evaluated before and after one increase.
Rescaled ==
    /\ prev.op \in Kernels /\ result.op = prev.op
    /\ IsArray(result.out) /\ PositiveTheta

\* Points i and j differ in a coordinate that component k of theta scales.
DiffersUnder(i, j, k) ==
    \E c \in 1..Max(Mp, L) :
        /\ Pick(L, c) = k
        /\ x_p.data[i][Pick(Mp, c)] # x_p.data[j][Pick(Mp, c)]

(***************************************************************************)
(* C5.  Scale monotonicity: with the point sets fixed, increasing one      *)
(* component of a positive theta strictly increases every off-diagonal     *)
(* entry of the Gram matrix, for all three kernels.                        *)
(***************************************************************************)
\* C5 as stated, here only for entries of two distinct points.
C5_Original ==
    Rescaled =>
        \A i \in 1..Np : \A j \in 1..Np :
            x_p.data[i] # x_p.data[j] => EntryLess(result.op, prev.out.data[i][j], result.out.data[i][j])

\* C5, amended: no entry decreases, and entry (i, j) strictly increases exactly
\* when points i and j differ in a coordinate scaled by the increased
\* component; entries of points that coincide there (duplicate points
\* among them) keep their value.
C5_ScaleMonotone ==
    Rescaled =>
        \A i \in 1..Np : \A j \in 1..Np :
            /\ ~EntryLess(result.op, result.out.data[i][j], prev.out.data[i][j])
            /\ EntryLess(result.op, prev.out.data[i][j], result.out.data[i][j])
                   <=> DiffersUnder(i, j, prev.k)

\* One off-diagonal entry has strictly increased and, in the same Gram
\* matrix, the other component would have left it alone.
C5_Witness ==
    /\ Rescaled
    /\ Np = 2 /\ Mp = 2 /\ L = 2
    /\ EntryLess(result.op, prev.out.data[1][2], result.out.data[1][2])
    /\ ~DiffersUnder(1, 2, 3 - prev.k)

(***************************************************************************)
(* SpecNorm: gaussian_norm(theta, m) and gaussian_norm(theta), m = 1.      *)
(***************************************************************************)
InitNorm ==
    /\ x_p = None /\ x_q = None
    /\ theta \in Vectors(0..MaxLen, (0 - 1)..MaxTheta)
    /\ m \in 0..MaxDim
    /\ result = NoResult
    /\ prev = NoPrev
    /\ pc = Idle /\ ker = Idle /\ sp = NoLocal /\ sq = NoLocal /\ rr = NoLocal
    /\ in0 = <<>>

CallNorm ==
    /\ result' = [op |-> "gaussian_norm", out |-> gaussian_norm(theta, m)]
    /\ UNCHANGED <<x_p, x_q, theta, m, prev, pc, ker, sp, sq, rr, in0>>

\* m left out: the default of the parameter is 1.
CallNormDefault ==
    /\ result' = [op |-> "gaussian_norm_default", out |-> gaussian_norm(theta, 1)]
    /\ UNCHANGED <<x_p, x_q, theta, m, prev, pc, ker, sp, sq, rr, in0>>

NextNorm == CallNorm \/ CallNormDefault

SpecNorm == InitNorm /\ [][NextNorm]_vars

NormCalled == result.op \in {"gaussian_norm", "gaussian_norm_default"}

\* The m of the call.
NormDim == IF result.op = "gaussian_norm" THEN m ELSE 1

RECURSIVE ThetaProduct(_)
\* theta_1 * ... * theta_k
ThetaProduct(k) == IF k = 0 THEN One ELSE Mul(ThetaProduct(k - 1), theta.data[k])

RECURSIVE Power(_, _)
Power(q, k) == IF k = 0 THEN One ELSE Mul(Power(q, k - 1), q)

IsScalar(a, c, q) == a.t = "scalar" /\ a.data = [c |-> c, q |-> q]

(***************************************************************************)
(* C6.  gaussian_norm(theta, m) fails with a broadcasting failure whenever *)
(* theta has length L > 1 and m # L, the default m = 1 included.           *)
(***************************************************************************)
\* C6 as stated.
C6_Original ==
    (NormCalled /\ L > 1 /\ NormDim # L) => IsError(result.out)

\* C6, amended: for L > 1 and m # L the call fails exactly when m # 1; with
\* m = 1 (the default) the single one is broadcast against theta and the
\* call returns sqrt(2 pi)^L times the product of the L components.
C6_MismatchFails ==
    (NormCalled /\ L > 1 /\ NormDim # L) =>
        IF NormDim # 1 THEN IsError(result.out)
        ELSE IsScalar(result.out, L, ThetaProduct(L))

\* A call with a theta of length 2 and m = 3 has failed.
C6_Witness ==
    /\ result.op = "gaussian_norm" /\ L = 2 /\ m = 3
    /\ IsError(result.out)

(***************************************************************************)
(* C8.  gaussian_norm(theta, m) is the product of exactly m factors        *)
(* sqrt(2 pi) * theta_i: (sqrt(2 pi) * c)^m for a length-1 theta [c] and   *)
(* every m >= 1 (1 when m is left out), and sqrt(2 pi)^m times the product *)
(* of the components for a length-m theta.                                 *)
(***************************************************************************)
C8_NormProduct ==
    (NormCalled /\ NormDim >= 1) =>
        /\ L = 1 => IsScalar(result.out, NormDim, Power(theta.data[1], NormDim))
        /\ L = NormDim => IsScalar(result.out, NormDim, ThetaProduct(NormDim))

\* An isotropic theta [2] with m = 3 has given 8 * sqrt(2 pi)^3.
C8_Witness ==
    /\ result.op = "gaussian_norm" /\ L = 1 /\ m = 3
    /\ theta.data[1] = FromInt(2)
    /\ IsScalar(result.out, 3, FromInt(8))

(***************************************************************************)
(* SpecDist: dist(x_1, x_2) and dist(x_2, x_1) on the caller's two point   *)
(* sets, x_p in the place of x_1 and x_q in the place of x_2.              *)
(***************************************************************************)
InitDist ==
    /\ x_p \in PointSets(1..MaxN, 1..MaxM)
    /\ x_q \in PointSets(1..MaxN, 1..MaxM)
    /\ theta = None
    /\ m = 0
    /\ result = NoResult
    /\ prev = NoPrev
    /\ pc = Idle /\ ker = Idle /\ sp = NoLocal /\ sq = NoLocal /\ rr = NoLocal
    /\ in0 = <<>>

CallDist ==
    /\ result' = [op |-> "dist", out |-> dist(x_p, x_q)]
    /\ UNCHANGED <<x_p, x_q, theta, m, prev, pc, ker, sp, sq, rr, in0>>

CallDistReversed ==
    /\ prev' = [op |-> "dist", out |-> dist(x_q, x_p), k |-> 0]
    /\ UNCHANGED <<x_p, x_q, theta, m, result, pc, ker, sp, sq, rr, in0>>

NextDist == CallDist \/ CallDistReversed

SpecDist == InitDist /\ [][NextDist]_vars

(***************************************************************************)
(* C9.  dist(x_1, x_2) for an n_1 x m and an n_2 x m point set is an       *)
(* array D of shape n_1 x n_2 x m with D[i,j,k] = x_1[i,k] - x_2[j,k];     *)
(* so dist(x_2, x_1)[j,i,k] = -dist(x_1, x_2)[i,j,k].                      *)
(***************************************************************************)
C9_Differences ==
    (result.op = "dist" /\ Mp = Mq) =>
        /\ IsArray(result.out) /\ result.out.shape = <<Np, Nq, Mp>>
        /\ \A i \in 1..Np : \A j \in 1..Nq : \A k \in 1..Mp :
               /\ result.out.data[i][j][k] =
                      FromInt(x_p.data[i][k].n - x_q.data[j][k].n)
               /\ prev.op = "dist" =>
                      /\ IsArray(prev.out) /\ prev.out.shape = <<Nq, Np, Mp>>
                      /\ prev.out.data[j][i][k] = Neg(result.out.data[i][j][k])

\* Both difference tensors of a two-point and a one-point set of two
\* columns are there, with a nonzero difference.
C9_Witness ==
    /\ result.op = "dist" /\ prev.op = "dist"
    /\ Np = 2 /\ Nq = 1 /\ Mp = 2 /\ Mq = 2
    /\ result.out.shape = <<2, 1, 2>>
    /\ result.out.data[2][1][1] = FromInt(1)
    /\ prev.out.data[1][2][1] = FromInt(0 - 1)

(***************************************************************************)
(* SpecPure: several callers run kernel calls on the same x_p, x_q and     *)
(* theta, one statement of a call at a time, in any interleaving.          *)
(***************************************************************************)
InitPure ==
    /\ x_p \in PointSets({1}, 1..MaxM)
    /\ x_q \in PointSets({MaxN}, {MaxM}) \cup {None}
    /\ theta \in Vectors({1, MaxLen}, {MaxTheta})
    /\ m = 0
    /\ result = NoResult
    /\ prev = NoPrev
    /\ pc = Idle /\ ker = Idle /\ sp = NoLocal /\ sq = NoLocal /\ rr = NoLocal
    /\ in0 = <<x_p, x_q, theta>>

Enter(c, k) ==
    /\ pc[c] = "idle"
    /\ pc' = [pc EXCEPT ![c] = "test"]
    /\ ker' = [ker EXCEPT ![c] = k]
    /\ UNCHANGED <<x_p, x_q, theta, m, result, prev, sp, sq, rr, in0>>

\* if x_q is None: return np.ones(x_p.shape[0])
TestNone(c) ==
    /\ pc[c] = "test"
    /\ IF x_q.t = "None"
       THEN /\ rr' = [rr EXCEPT ![c] = ones(x_p.shape[1])]
            /\ pc' = [pc EXCEPT ![c] = "return"]
       ELSE /\ rr' = rr
            /\ pc' = [pc EXCEPT ![c] = "scale_p"]
    /\ UNCHANGED <<x_p, x_q, theta, m, result, prev, ker, sp, sq, in0>>

\* x_p / theta
ScaleP(c) ==
    /\ pc[c] = "scale_p"
    /\ sp' = [sp EXCEPT ![c] = Divide(x_p, theta)]
    /\ x_p' = AfterDivide(x_p, theta)
    /\ pc' = [pc EXCEPT ![c] = IF IsError(Divide(x_p, theta)) THEN "raise" ELSE "scale_q"]
    /\ UNCHANGED <<x_q, theta, m, result, prev, ker, sq, rr, in0>>

\* x_q / theta
ScaleQ(c) ==
    /\ pc[c] = "scale_q"
    /\ sq' = [sq EXCEPT ![c] = Divide(x_q, theta)]
    /\ x_q' = AfterDivide(x_q, theta)
    /\ pc' = [pc EXCEPT ![c] = IF IsError(Divide(x_q, theta)) THEN "raise" ELSE "cdist"]
    /\ UNCHANGED <<x_p, theta, m, result, prev, ker, sp, rr, in0>>

\* cdist(x_p/theta, x_q/theta, metric)
Distance(c) ==
    /\ pc[c] = "cdist"
    /\ rr' = [rr EXCEPT ![c] = cdist(sp[c], sq[c], MetricOf(ker[c]))]
    /\ pc' = [pc EXCEPT ![c] =
                 IF IsError(cdist(sp[c], sq[c], MetricOf(ker[c]))) THEN "raise" ELSE "transform"]
    /\ UNCHANGED <<x_p, x_q, theta, m, result, prev, ker, sp, sq, in0>>

\* the kernel's elementwise transform of the distances
Transform(c) ==
    /\ pc[c] = "transform"
    /\ rr' = [rr EXCEPT ![c] = TransformOf(ker[c], rr[c])]
    /\ pc' = [pc EXCEPT ![c] = "return"]
    /\ UNCHANGED <<x_p, x_q, theta, m, result, prev, ker, sp, sq, in0>>

\* The call is over, with a value or with the error; its locals are gone.
Leave(c) ==
    /\ pc[c] \in {"return", "raise"}
    /\ pc' = [pc EXCEPT ![c] = "idle"]
    /\ ker' = [ker EXCEPT ![c] = "idle"]
    /\ sp' = [sp EXCEPT ![c] = None]
    /\ sq' = [sq EXCEPT ![c] = None]
    /\ rr' = [rr EXCEPT ![c] = None]
    /\ UNCHANGED <<x_p, x_q, theta, m, result, prev, in0>>

NextPure ==
    \E c \in Callers :
        \/ \E k \in Kernels : Enter(c, k)
        \/ TestNone(c)
        \/ ScaleP(c)
        \/ ScaleQ(c)
        \/ Distance(c)
        \/ Transform(c)
        \/ Leave(c)

SpecPure == InitPure /\ [][NextPure]_vars

(***************************************************************************)
(* C10.  Every kernel function leaves x_p, x_q and theta as they were, on  *)
(* either branch and whether the call returns or fails, so that calls in   *)
(* any sequence or interleaving on shared inputs give what each call       *)
(* gives alone.                                                            *)
(***************************************************************************)
C10_Pure ==
    Len(in0) = 3 =>
        /\ Same(x_p, in0[1]) /\ Same(x_q, in0[2]) /\ Same(theta, in0[3])
        /\ \A c \in Callers :
               /\ pc[c] = "return" =>
                      Same(rr[c], Kernel(ker[c], in0[1], in0[2], in0[3]))
               /\ pc[c] = "raise" =>
                      IsError(Kernel(ker[c], in0[1], in0[2], in0[3]))

\* One caller is about to return a matrix while another, running a
\* different kernel on the same arrays, is in the middle of its call.
C10_Witness ==
    /\ Len(in0) = 3
    /\ pc[1] = "return" /\ pc[2] = "cdist" /\ ker[1] # ker[2]
    /\ IsArray(rr[1]) /\ Len(rr[1].shape) = 2
    /\ \E j \in 1..rr[1].shape[2] : ~IsNum(rr[1].data[1][j])

=============================================================================
